---- MODULE Spec2Model ----
(***************************************************************************)
(* A model of server/main.py: the /generate handler of the incident-update *)
(* drafter, its sanitizer (sanitize_text), its cadence policy              *)
(* (default_cadence), its export formatter (format_templates) and its      *)
(* optional generative backend (try_llm_generate).                         *)
(*                                                                         *)
(* A Python str is modelled as a sequence of characters, each character a  *)
(* one-character TLA+ string; a dict is a function whose DOMAIN is the set *)
(* of keys present.  The regular expressions are modelled by what Python's *)
(* backtracking matcher does with them: for every start position, the end  *)
(* of the match the matcher prefers, or 0 when there is none.              *)
(***************************************************************************)
EXTENDS Integers, Sequences, FiniteSets, TLC

VARIABLES
  pc,               \* position of the handler: received .. responded (or error)
  request,          \* the payload as the caller sent it (never assigned after Init)
  payload,          \* the payload dict the handler works on (the caller's object)
  configured,       \* whether os.getenv("OPENAI_API_KEY") is set
  stage, severity, next_update,     \* locals of generate, lines 154-156
  fidx,             \* index into fields of the sanitizing loop, line 161
  redaction_notes,  \* line 160
  backend_resp,     \* what the backend did when it was called (None before)
  backend_calls,    \* how often client.responses.create was reached
  llm_out, llm_used,\* lines 167, 169
  drafts, exports,  \* lines 184, 191
  response,         \* the JSON body returned, lines 193-210 (None before)
  san_pc, san_in, san_mid, san_out  \* sanitize_text run on its own

vars == <<pc, request, payload, configured, stage, severity, next_update, fidx,
          redaction_notes, backend_resp, backend_calls, llm_out, llm_used,
          drafts, exports, response, san_pc, san_in, san_mid, san_out>>

genvars == <<pc, request, payload, configured, stage, severity, next_update, fidx,
             redaction_notes, backend_resp, backend_calls, llm_out, llm_used,
             drafts, exports, response>>

sanvars == <<san_pc, san_in, san_mid, san_out>>

----------------------------------------------------------------------------
(* Bounds of the model. *)

\* Longest text given to sanitize_text on its own, in lines.
MaxLines == 3

\* Longest run of placeholder tokens given to sanitize_text on its own.
MaxPlaceholders == 3

\* Length of the long text the backend may return (beyond the status-page cap).
LongLen == 2100

----------------------------------------------------------------------------
(* Characters and strings. *)

None == "None"

\* U+2013, the dash of the status-page titles: one character.
EnDash == "U+2013"

NL == "\n"

LowerSeq == <<"a", "b", "c", "d", "e", "f", "g", "h", "i", "j", "k", "l", "m", "n", "o", "p", "q", "r", "s", "t", "u", "v", "w", "x", "y", "z">>

UpperSeq == <<"A", "B", "C", "D", "E", "F", "G", "H", "I", "J", "K", "L", "M", "N", "O", "P", "Q", "R", "S", "T", "U", "V", "W", "X", "Y", "Z">>

Lower == {LowerSeq[i] : i \in 1..26}

Upper == {UpperSeq[i] : i \in 1..26}

Letter == Lower \cup Upper

Digit == {"0", "1", "2", "3", "4", "5", "6", "7", "8", "9"}

Alnum == Letter \cup Digit

\* \w: what \b tells apart from the rest.
WordCh == Alnum \cup {"_"}

\* \s
Space == {" ", "\n", "\t", "\r"}

\* (The set of one element binds S to its value, so that it is computed once.)
Min(S) == CHOOSE m \in {CHOOSE x \in v : \A y \in v : x <= y : v \in {S}} : TRUE

Max(S) == CHOOSE m \in {CHOOSE x \in v : \A y \in v : x >= y : v \in {S}} : TRUE

\* str.upper() and str.lower(), one character.
UpperCh(c) == IF c \in Lower THEN UpperSeq[CHOOSE i \in 1..26 : LowerSeq[i] = c] ELSE c

LowerCh(c) == IF c \in Upper THEN LowerSeq[CHOOSE i \in 1..26 : UpperSeq[i] = c] ELSE c

upper(s) == [i \in 1..Len(s) |-> UpperCh(s[i])]

lower(s) == [i \in 1..Len(s) |-> LowerCh(s[i])]

\* str.strip(): leading and trailing whitespace removed.
RECURSIVE lstrip(_)
lstrip(s) == IF s = <<>> \/ Head(s) \notin Space THEN s ELSE lstrip(Tail(s))

RECURSIVE rstrip(_)
rstrip(s) == IF s = <<>> \/ s[Len(s)] \notin Space THEN s ELSE rstrip(SubSeq(s, 1, Len(s) - 1))

strip(s) == rstrip(lstrip(s))

\* sep.join(parts)
RECURSIVE join(_, _)
join(sep, parts) ==
  IF parts = <<>> THEN <<>>
  ELSE IF Len(parts) = 1 THEN parts[1]
  ELSE parts[1] \o <<sep>> \o join(sep, Tail(parts))

\* str.splitlines(), for text whose only line break is "\n": no last empty line.
RECURSIVE splitlines(_)
splitlines(s) ==
  IF s = <<>> THEN <<>>
  ELSE CHOOSE r \in
         { LET brk == {i \in 1..Len(t) : t[i] = NL}
           IN IF brk = {} THEN <<t>>
              ELSE <<SubSeq(t, 1, Min(brk) - 1)>> \o splitlines(SubSeq(t, Min(brk) + 1, Len(t)))
           : t \in {s} } : TRUE

\* kw in s
Contains(s, kw) == \E i \in 1..(Len(s) - Len(kw) + 1) : SubSeq(s, i, i + Len(kw) - 1) = kw

\* s.startswith(p), s.endswith(p)
StartsWith(s, p) == Len(p) <= Len(s) /\ SubSeq(s, 1, Len(p)) = p

EndsWith(s, p) == Len(p) <= Len(s) /\ SubSeq(s, Len(s) - Len(p) + 1, Len(s)) = p

\* dict.get(k, d), and dict.get(k) or d
Get(p, k, d) == IF k \in DOMAIN p THEN p[k] ELSE d

GetOr(p, k, d) == IF k \in DOMAIN p /\ p[k] # <<>> THEN p[k] ELSE d

\* d[k] = v
Put(p, k, v) == [x \in DOMAIN p \cup {k} |-> IF x = k THEN v ELSE p[x]]

EmptyDict == [x \in {} |-> <<>>]

----------------------------------------------------------------------------
(* The matcher: re.search and re.sub of lines 42-43, re.IGNORECASE.        *)
(* A position i is the place before s[i]; a match end is the place after   *)
(* the last character matched, and 0 means no match at that start.         *)

InAt(s, i, Cls) == i >= 1 /\ i <= Len(s) /\ s[i] \in Cls

\* The first place at or after i whose character is not in Cls.
RunEnd(s, i, Cls) ==
  IF \A j \in i..Len(s) : s[j] \in Cls THEN Len(s) + 1
  ELSE CHOOSE j \in i..Len(s) : s[j] \notin Cls /\ \A k \in i..(j - 1) : s[k] \in Cls

\* \b at place i
Boundary(s, i) == InAt(s, i - 1, WordCh) # InAt(s, i, WordCh)

\* s[i..] starts with the literal lit, case ignored.
LitAt(s, i, lit) ==
  /\ i + Len(lit) - 1 <= Len(s)
  /\ \A j \in 1..Len(lit) : LowerCh(s[i + j - 1]) = lit[j]

\* s[i..e-1] is four runs of one to three digits joined by single dots.
IpShape(s, i, e) ==
  /\ \A j \in i..(e - 1) : s[j] \in Digit \cup {"."}
  /\ s[i] # "." /\ s[e - 1] # "."
  /\ Cardinality({j \in i..(e - 1) : s[j] = "."}) = 3
  /\ \A j \in i..(e - 2) : ~(s[j] = "." /\ s[j + 1] = ".")
  /\ \A j \in i..(e - 4) : \E m \in j..(j + 3) : s[m] = "."

\* \b(?:\d{1,3}\.){3}\d{1,3}\b
\* Each run of digits must end at a dot, and the last at a \b: there is one
\* end at most, 7 to 15 characters on.
IpMatchEnd(s, i) ==
  IF ~(Boundary(s, i) /\ InAt(s, i, Digit)) THEN 0
  ELSE LET ends == {e \in (i + 7)..(i + 15) :
                      e <= Len(s) + 1 /\ IpShape(s, i, e) /\ Boundary(s, e)}
       IN IF ends = {} THEN 0 ELSE Max(ends)

EmailLocal == Alnum \cup {".", "_", "%", "+", "-"}

EmailDomain == Alnum \cup {".", "-"}

\* [A-Za-z0-9._%+-]+@[A-Za-z0-9.-]+\.[A-Za-z]{2,}
\* The local part is a whole run up to "@"; the greedy domain gives back
\* characters until a dot followed by two letters is found: the last such dot.
EmailMatchEnd(s, i) ==
  LET a == RunEnd(s, i, EmailLocal)
  IN IF ~(a > i /\ InAt(s, a, {"@"})) THEN 0
     ELSE LET k == RunEnd(s, a + 1, EmailDomain)
              dots == {p \in (a + 2)..(k - 1) :
                         s[p] = "." /\ InAt(s, p + 1, Letter) /\ InAt(s, p + 2, Letter)}
          IN IF dots = {} THEN 0 ELSE RunEnd(s, Max(dots) + 1, Letter)

HostCh == Alnum \cup {"-"}

\* s[i..e-1] is labels of HostCh joined by single dots, two labels at least.
HostShape(s, i, e) ==
  /\ e - 1 > i
  /\ \A j \in i..(e - 1) : s[j] \in HostCh \cup {"."}
  /\ s[i] # "." /\ s[e - 1] # "."
  /\ \E j \in i..(e - 1) : s[j] = "."
  /\ \A j \in i..(e - 2) : ~(s[j] = "." /\ s[j + 1] = ".")

\* \b[a-zA-Z0-9-]+(?:\.[a-zA-Z0-9-]+)+\b
\* Every quantifier is greedy, so the matcher takes the longest end that \b allows.
HostMatchEnd(s, i) ==
  IF ~(Boundary(s, i) /\ InAt(s, i, HostCh)) THEN 0
  ELSE LET k == RunEnd(s, i, HostCh \cup {"."})
           ends == {e \in (i + 3)..k : HostShape(s, i, e) /\ Boundary(s, e)}
       IN IF ends = {} THEN 0 ELSE Max(ends)

IdCh == Alnum \cup {"_", "-"}

\* {6,} of the internal-id rule
IdMinLen == 6

\* (?:id|internal[-_ ]?id) at i: the place after it, or 0.
IdPrefixEnd(s, i) ==
  IF LitAt(s, i, <<"i", "d">>) THEN i + 2
  ELSE IF ~LitAt(s, i, <<"i", "n", "t", "e", "r", "n", "a", "l">>) THEN 0
  ELSE IF LitAt(s, i + 8, <<"i", "d">>) THEN i + 10
  ELSE IF InAt(s, i + 8, {"-", "_", " "}) /\ LitAt(s, i + 9, <<"i", "d">>) THEN i + 11
  ELSE 0

\* \b(?:id|internal[-_ ]?id)[:# ]?\s*[A-Za-z0-9_-]{6,}\b
\* After the prefix: one of ":# " if there, all the whitespace, then the longest
\* run of at least six id characters that ends at a \b.
IdMatchEnd(s, i) ==
  IF ~Boundary(s, i) THEN 0
  ELSE LET p == IdPrefixEnd(s, i)
       IN IF p = 0 THEN 0
          ELSE LET q == IF InAt(s, p, {":", "#", " "}) THEN p + 1 ELSE p
                   r == RunEnd(s, q, Space)
                   c == RunEnd(s, r, IdCh)
                   ends == {e \in (r + IdMinLen)..c : Boundary(s, e)}
               IN IF ends = {} THEN 0 ELSE Max(ends)

MatchEnd(pattern, s, i) ==
  CASE pattern = "ip" -> IpMatchEnd(s, i)
    [] pattern = "email" -> EmailMatchEnd(s, i)
    [] pattern = "hostname" -> HostMatchEnd(s, i)
    [] pattern = "internal-id" -> IdMatchEnd(s, i)

MatchStarts(pattern, s, from) == {i \in from..Len(s) : MatchEnd(pattern, s, i) > 0}

\* re.search(pattern, s, flags=re.IGNORECASE) is not None
Search(pattern, s) == MatchStarts(pattern, s, 1) # {}

\* re.sub(pattern, repl, s): the leftmost match, then on from its end.
\* (The sets of one element bind a place to its value, so that it is computed once.)
RECURSIVE SubFrom(_, _, _, _)
SubFrom(pattern, repl, s, pos) ==
  CHOOSE r \in
    { IF starts = {} THEN SubSeq(s, p, Len(s))
      ELSE CHOOSE t \in
             { SubSeq(s, p, i - 1) \o repl \o SubFrom(pattern, repl, s, MatchEnd(pattern, s, i))
               : i \in {Min(starts)} } : TRUE
      : p \in {pos}, starts \in {MatchStarts(pattern, s, pos)} } : TRUE

Sub(pattern, repl, s) == SubFrom(pattern, repl, s, 1)

\* How many matches re.sub replaces.
RECURSIVE CountFrom(_, _, _)
CountFrom(pattern, s, pos) ==
  CHOOSE n \in
    { IF starts = {} THEN 0 ELSE 1 + CountFrom(pattern, s, MatchEnd(pattern, s, Min(starts)))
      : starts \in {MatchStarts(pattern, s, pos)} } : TRUE

----------------------------------------------------------------------------
(* sanitize_text, lines 32-55. *)

RedactedIp == <<"[", "r", "e", "d", "a", "c", "t", "e", "d", "-", "i", "p", "]">>

RedactedEmail == <<"[", "r", "e", "d", "a", "c", "t", "e", "d", "-", "e", "m", "a", "i", "l", "]">>

RedactedHost == <<"[", "r", "e", "d", "a", "c", "t", "e", "d", "-", "h", "o", "s", "t", "]">>

RedactedId == <<"[", "r", "e", "d", "a", "c", "t", "e", "d", "-", "i", "d", "]">>

\* A table with the e-mail rule after the hostname rule.
rules_HostFirst ==
  << [pattern |-> "ip", repl |-> RedactedIp, label |-> "ip"],
     [pattern |-> "hostname", repl |-> RedactedHost, label |-> "hostname"],
     [pattern |-> "email", repl |-> RedactedEmail, label |-> "email"],
     [pattern |-> "internal-id", repl |-> RedactedId, label |-> "internal-id"] >>

rules ==
  << [pattern |-> "ip", repl |-> RedactedIp, label |-> "ip"],
     [pattern |-> "email", repl |-> RedactedEmail, label |-> "email"],
     [pattern |-> "hostname", repl |-> RedactedHost, label |-> "hostname"],
     [pattern |-> "internal-id", repl |-> RedactedId, label |-> "internal-id"] >>

RedactedNote(label) == [token |-> label, action |-> "redacted"]

RemovedNote == [token |-> "stack-trace-line", action |-> "removed"]

\* A rule that notes every match it replaces.
ApplyRule_NotePerMatch(st, rule) ==
  IF Search(rule.pattern, st.text)
  THEN [text |-> Sub(rule.pattern, rule.repl, st.text),
        notes |-> st.notes \o [j \in 1..CountFrom(rule.pattern, st.text, 1) |-> RedactedNote(rule.label)]]
  ELSE st

\* One turn of the loop of lines 41-44.
ApplyRule(st, rule) ==
  IF Search(rule.pattern, st.text)
  THEN [text |-> Sub(rule.pattern, rule.repl, st.text),
        notes |-> Append(st.notes, RedactedNote(rule.label))]
  ELSE st

\* The loop of lines 41-44 from rule k on.  (The set of one element binds the
\* state reached so far to its value, so that it is computed once.)
RECURSIVE ApplyRules(_, _)
ApplyRules(st, k) ==
  IF k > Len(rules) THEN st
  ELSE CHOOSE r \in {ApplyRules(ApplyRule(v, rules[k]), k + 1) : v \in {st}} : TRUE

\* Lines 33-44: the text and notes after the rule loop.
Redact(text) == ApplyRules([text |-> text, notes |-> <<>>], 1)

\* The alternatives of the regular expression of line 49, a raw string: in it
\* " at \\/" is " at ", a backslash and a slash, and " at \\\\" is " at "
\* and two backslashes.  The search is case-sensitive.
StackTraceMarkers ==
  { <<"T", "r", "a", "c", "e", "b", "a", "c", "k">>, <<"E", "x", "c", "e", "p", "t", "i", "o", "n">>, <<"E", "r", "r", "o", "r", ":">>, <<" ", "a", "t", " ", "\\", "/">>, <<" ", "a", "t", " ", "\\", "\\">>, <<"C", "a", "u", "s", "e", "d", " ", "b", "y", ":">> }

IsStackTraceLine(line) == \E kw \in StackTraceMarkers : Contains(line, kw)

KeepLine(line) == ~IsStackTraceLine(line)

\* Lines 47-53: the lines kept, rejoined, and one note for each line dropped.
FilterLines(st) ==
  LET lines == splitlines(st.text)
      kept == SelectSeq(lines, KeepLine)
  IN [text |-> join(NL, kept),
      notes |-> st.notes \o [j \in 1..(Len(lines) - Len(kept)) |-> RemovedNote]]

sanitize_text(text) == CHOOSE r \in {FilterLines(v) : v \in {Redact(text)}} : TRUE

----------------------------------------------------------------------------
(* default_cadence, lines 20-29. *)

SEVERITY_CADENCE ==
  (<<"S", "E", "V", "1">> :> <<"3", "0", " ", "m", "i", "n", "u", "t", "e", "s">>) @@ (<<"S", "E", "V", "2">> :> <<"6", "0", " ", "m", "i", "n", "u", "t", "e", "s">>) @@
  (<<"S", "E", "V", "3">> :> <<"2", " ", "h", "o", "u", "r", "s">>) @@ (<<"S", "E", "V", "4">> :> <<"d", "a", "i", "l", "y", " ", "o", "r", " ", "o", "n", " ", "m", "e", "a", "n", "i", "n", "g", "f", "u", "l", " ", "c", "h", "a", "n", "g", "e">>)

\* A lookup that compares the severity as written.
default_cadence_CaseSensitive(sev) == Get(SEVERITY_CADENCE, sev, <<"6", "0", " ", "m", "i", "n", "u", "t", "e", "s">>)

default_cadence(sev) == Get(SEVERITY_CADENCE, upper(sev), <<"6", "0", " ", "m", "i", "n", "u", "t", "e", "s">>)

----------------------------------------------------------------------------
(* format_templates, lines 85-113. *)

\* [:2000] of line 111
StatusPageCap == 2000

Title(stg) ==
  IF stg = <<"i", "n", "i", "t", "i", "a", "l">> THEN <<"S", "e", "r", "v", "i", "c", "e", " ", "D", "e", "g", "r", "a", "d", "a", "t", "i", "o", "n", " ", EnDash, " ", "U", "p", "d", "a", "t", "e">>
  ELSE IF stg = <<"r", "e", "s", "o", "l", "u", "t", "i", "o", "n">> THEN <<"I", "n", "c", "i", "d", "e", "n", "t", " ", "R", "e", "s", "o", "l", "v", "e", "d", " ", EnDash, " ", "S", "u", "m", "m", "a", "r", "y">>
  ELSE <<"I", "n", "c", "i", "d", "e", "n", "t", " ", "U", "p", "d", "a", "t", "e", " ", EnDash, " ", "P", "r", "o", "g", "r", "e", "s", "s">>

EmailSubject(stg) ==
  IF stg = <<"i", "n", "i", "t", "i", "a", "l">> THEN <<"[", "I", "n", "c", "i", "d", "e", "n", "t", "]", " ", "I", "n", "i", "t", "i", "a", "l", " ", "N", "o", "t", "i", "c", "e">>
  ELSE IF stg = <<"r", "e", "s", "o", "l", "u", "t", "i", "o", "n">> THEN <<"[", "I", "n", "c", "i", "d", "e", "n", "t", "]", " ", "R", "e", "s", "o", "l", "v", "e", "d">>
  ELSE <<"[", "I", "n", "c", "i", "d", "e", "n", "t", "]", " ", "U", "p", "d", "a", "t", "e">>

\* s[:n]
Take(s, n) == SubSeq(s, 1, IF Len(s) < n THEN Len(s) ELSE n)

\* A formatter that does not cut the status page.
format_templates_NoCap(stg, text, nu) ==
  [statuspage |-> join(NL, <<Title(stg), <<>>, text, <<>>, <<"N", "e", "x", "t", " ", "u", "p", "d", "a", "t", "e", ":", " ">> \o nu>>),
   email |-> join(NL, <<EmailSubject(stg), <<>>, text, <<>>, <<"N", "e", "x", "t", " ", "u", "p", "d", "a", "t", "e", ":", " ">> \o nu>>)]

format_templates(stg, text, nu) ==
  [statuspage |-> Take(join(NL, <<Title(stg), <<>>, text, <<>>, <<"N", "e", "x", "t", " ", "u", "p", "d", "a", "t", "e", ":", " ">> \o nu>>), StatusPageCap),
   email |-> join(NL, <<EmailSubject(stg), <<>>, text, <<>>, <<"N", "e", "x", "t", " ", "u", "p", "d", "a", "t", "e", ":", " ">> \o nu>>)]

----------------------------------------------------------------------------
(* try_llm_generate, lines 116-141.  The backend is a black box: when      *)
(* called it raises an Exception, or returns a response whose output_text  *)
(* parts are a sequence of strings.  The result says whether an exception  *)
(* leaves the function (raised) and otherwise the dict returned (value).   *)

NonEmpty(p) == p # <<>>

\* Lines 130-136: the non-empty parts joined by line breaks, stripped.
ExtractText(resp) == strip(join(NL, SelectSeq(resp.parts, NonEmpty)))

Returned(d) == [raised |-> FALSE, value |-> d]

\* Without the except clause of lines 140-141.
try_llm_generate_NoExcept(conf, resp) ==
  IF ~conf THEN Returned(EmptyDict)
  ELSE IF resp.kind = "raise" THEN [raised |-> TRUE, value |-> EmptyDict]
  ELSE LET text == ExtractText(resp)
       IN IF text = <<>> THEN Returned(EmptyDict) ELSE Returned([k \in {"standard"} |-> text])

\* Without the strip and the emptiness test of lines 136-138.
try_llm_generate_NoEmptyTest(conf, resp) ==
  IF ~conf THEN Returned(EmptyDict)
  ELSE IF resp.kind = "raise" THEN Returned(EmptyDict)
  ELSE Returned([k \in {"standard"} |-> join(NL, SelectSeq(resp.parts, NonEmpty))])

try_llm_generate(conf, resp) ==
  IF ~conf THEN Returned(EmptyDict)
  ELSE IF resp.kind = "raise" THEN Returned(EmptyDict)
  ELSE LET text == ExtractText(resp)
       IN IF text = <<>> THEN Returned(EmptyDict) ELSE Returned([k \in {"standard"} |-> text])

NoResponse == [kind |-> "none", parts |-> <<>>]

LongText == [i \in 1..LongLen |-> "x"]

\* What the backend may do when it is called.
BackendBehaviours ==
  { [kind |-> "raise", parts |-> <<>>],
    [kind |-> "ok", parts |-> <<>>],
    [kind |-> "ok", parts |-> << <<" ", " ">>, <<>>, <<"\n">> >>],
    [kind |-> "ok", parts |-> << <<" ", "S", "e", "r", "v", "i", "c", "e", " ", "i", "s", " ", "r", "e", "c", "o", "v", "e", "r", "i", "n", "g", ".">>, <<>>, <<"T", "h", "a", "n", "k", " ", "y", "o", "u", ".", " ">> >>],
    [kind |-> "ok", parts |-> << LongText >>] }

----------------------------------------------------------------------------
(* generate, lines 147-210. *)

\* Line 159
fields == <<"summary", "impact">>

\* generate.templated, lines 171-181
templated(style, pl, sev, nu) ==
  LET base == <<"W", "e", " ", "a", "r", "e", " ">> \o Get(pl, "mitigation", <<"i", "n", "v", "e", "s", "t", "i", "g", "a", "t", "i", "n", "g">>)
              \o <<" ", "a", "n", " ", "i", "s", "s", "u", "e", " ", "i", "m", "p", "a", "c", "t", "i", "n", "g", " ">> \o Get(pl, "impact", <<"u", "n", "s", "p", "e", "c", "i", "f", "i", "e", "d", " ", "s", "c", "o", "p", "e">>)
              \o <<".", " ", "S", "e", "v", "e", "r", "i", "t", "y", ":", " ">> \o sev \o <<".", " ", "N", "e", "x", "t", " ", "u", "p", "d", "a", "t", "e", " ", "i", "n", " ">> \o nu
              \o <<".", " ", "S", "u", "m", "m", "a", "r", "y", ":", " ">> \o strip(Get(pl, "summary", <<>>))
  IN IF style = "short" THEN base
     ELSE IF style = "standard"
       THEN base \o <<" ", "W", "e", " ", "w", "i", "l", "l", " ", "p", "r", "o", "v", "i", "d", "e", " ", "f", "u", "r", "t", "h", "e", "r", " ", "d", "e", "t", "a", "i", "l", "s", " ", "a", "s", " ", "t", "h", "e", "y", " ", "a", "r", "e", " ", "v", "e", "r", "i", "f", "i", "e", "d", ".">>
     ELSE base \o <<" ", "R", "e", "s", "o", "l", "u", "t", "i", "o", "n", " ", "s", "t", "e", "p", "s", " ", "a", "r", "e", " ", "u", "n", "d", "e", "r", "w", "a", "y", ";", " ", "w", "e", " ", "w", "i", "l", "l", " ", "s", "h", "a", "r", "e", " ", "a", " ", "f", "u", "l", "l", " ", "s", "u", "m", "m", "a", "r", "y", " ", "p", "o", "s", "t", "-", "r", "e", "s", "o", "l", "u", "t", "i", "o", "n", ".">>

Missing == <<None>>

Keys == {"summary", "impact", "mitigation", "severity", "stage", "next_update"}

\* Values a request may carry for each key (Missing: the key is absent).
SummaryValues ==
  { Missing,
    <<" ", "D", "B", " ", "1", "0", ".", "0", ".", "0", ".", "1", " ", "a", "n", "d", " ", "1", "0", ".", "0", ".", "0", ".", "2", " ", "d", "o", "w", "n", "\n", "E", "r", "r", "o", "r", ":", " ", "b", "o", "o", "m", "\n", "m", "a", "i", "l", " ", "a", "@", "b", ".", "c", "c", " ">>,
    <<"L", "o", "g", "i", "n", " ", "i", "s", " ", "s", "l", "o", "w">> }

ImpactValues == { Missing, <<"c", "h", "e", "c", "k", "o", "u", "t", " ", "d", "b", "1", ".", "c", "o", "r", "p", " ", "i", "d", ":", "a", "b", "c", "1", "2", "3", "x", "\n", "C", "a", "u", "s", "e", "d", " ", "b", "y", ":", " ", "y">>, <<"E", "U", " ", "u", "s", "e", "r", "s">> }

MitigationValues == { Missing, <<"r", "e", "s", "t", "a", "r", "t", "i", "n", "g", " ", "1", "0", ".", "0", ".", "0", ".", "1">> }

SeverityValues == { Missing, <<"s", "e", "v", "1">>, <<"S", "E", "V", "2">>, <<"S", "e", "v", "3">>, <<"S", "E", "V", "4">>, <<"P", "1">> }

StageValues == { Missing, <<"i", "n", "i", "t", "i", "a", "l">>, <<"R", "e", "s", "o", "l", "u", "t", "i", "o", "n">>, <<"p", "o", "s", "t", "m", "o", "r", "t", "e", "m">> }

NextUpdateValues == { Missing, <<>>, <<"1", " ", "h", "o", "u", "r">> }

MkRequest(su, im, mi, se, st, nu) ==
  LET v == [k \in Keys |->
              CASE k = "summary" -> su [] k = "impact" -> im [] k = "mitigation" -> mi
                [] k = "severity" -> se [] k = "stage" -> st [] k = "next_update" -> nu]
  IN [k \in {x \in Keys : v[x] # Missing} |-> v[k]]

Requests ==
  { MkRequest(su, im, mi, se, st, nu) :
      su \in SummaryValues, im \in ImpactValues, mi \in MitigationValues,
      se \in SeverityValues, st \in StageValues, nu \in NextUpdateValues }

NoText == [text |-> <<>>, notes |-> <<>>]

SanIdle == san_pc = "off" /\ san_in = <<>> /\ san_mid = NoText /\ san_out = NoText

Init ==
  /\ pc = "received"
  /\ request \in Requests
  /\ payload = request
  /\ configured \in BOOLEAN
  /\ stage = <<>> /\ severity = <<>> /\ next_update = <<>>
  /\ fidx = 1
  /\ redaction_notes = <<>>
  /\ backend_resp = NoResponse
  /\ backend_calls = 0
  /\ llm_out = EmptyDict /\ llm_used = FALSE
  /\ drafts = EmptyDict /\ exports = EmptyDict /\ response = EmptyDict
  /\ SanIdle

\* Lines 154-156
Receive ==
  /\ pc = "received"
  /\ stage' = lower(GetOr(payload, "stage", <<"o", "n", "g", "o", "i", "n", "g">>))
  /\ severity' = Get(payload, "severity", <<"S", "E", "V", "3">>)
  /\ next_update' = GetOr(payload, "next_update", default_cadence(severity'))
  /\ pc' = "sanitizing"
  /\ UNCHANGED <<request, payload, configured, fidx, redaction_notes, backend_resp,
                 backend_calls, llm_out, llm_used, drafts, exports, response>>
  /\ UNCHANGED sanvars

\* One turn of the loop of lines 161-164
SanitizeField ==
  /\ pc = "sanitizing"
  /\ fidx <= Len(fields)
  /\ \E redacted \in {sanitize_text(Get(payload, fields[fidx], <<>>))} :
       /\ payload' = Put(payload, fields[fidx], redacted.text)
       /\ redaction_notes' = redaction_notes \o redacted.notes
  /\ fidx' = fidx + 1
  /\ UNCHANGED <<pc, request, configured, stage, severity, next_update, backend_resp,
                 backend_calls, llm_out, llm_used, drafts, exports, response>>
  /\ UNCHANGED sanvars

\* Lines 167-169 with no API key: try_llm_generate returns at line 119
NoBackend ==
  /\ pc = "sanitizing"
  /\ fidx > Len(fields)
  /\ ~configured
  /\ LET r == try_llm_generate(configured, NoResponse)
     IN /\ llm_out' = r.value
        /\ llm_used' = (DOMAIN r.value # {})
        /\ pc' = IF r.raised THEN "error" ELSE "composing"
  /\ UNCHANGED <<request, payload, configured, stage, severity, next_update, fidx,
                 redaction_notes, backend_resp, backend_calls, drafts, exports, response>>
  /\ UNCHANGED sanvars

\* Line 167 with an API key: try_llm_generate goes on to the backend, lines 120-128
CallBackend ==
  /\ pc = "sanitizing"
  /\ fidx > Len(fields)
  /\ configured
  /\ pc' = "generating"
  /\ UNCHANGED <<request, payload, configured, stage, severity, next_update, fidx,
                 redaction_notes, backend_resp, backend_calls, llm_out, llm_used,
                 drafts, exports, response>>
  /\ UNCHANGED sanvars

\* Lines 124-141 and 167-169: the backend answers or raises
BackendDone ==
  /\ pc = "generating"
  /\ \E resp \in BackendBehaviours :
       /\ backend_resp' = resp
       /\ backend_calls' = backend_calls + 1
       /\ LET r == try_llm_generate(configured, resp)
          IN /\ llm_out' = r.value
             /\ llm_used' = (DOMAIN r.value # {})
             /\ pc' = IF r.raised THEN "error" ELSE "composing"
  /\ UNCHANGED <<request, payload, configured, stage, severity, next_update, fidx,
                 redaction_notes, drafts, exports, response>>
  /\ UNCHANGED sanvars

\* Lines 184-188
Compose ==
  /\ pc = "composing"
  /\ drafts' = [short |-> templated("short", payload, severity, next_update),
                standard |-> IF DOMAIN llm_out # {} THEN llm_out["standard"]
                             ELSE templated("standard", payload, severity, next_update),
                detailed |-> templated("detailed", payload, severity, next_update)]
  /\ pc' = "formatting"
  /\ UNCHANGED <<request, payload, configured, stage, severity, next_update, fidx,
                 redaction_notes, backend_resp, backend_calls, llm_out, llm_used,
                 exports, response>>
  /\ UNCHANGED sanvars

\* Lines 191-210; OPENAI_MODEL is not set, so llm_model is None either way
Format ==
  /\ pc = "formatting"
  /\ exports' = format_templates(stage, drafts.standard, next_update)
  /\ response' = [drafts |-> drafts,
                  exports |-> exports',
                  guardrails |-> [notes |-> redaction_notes, blocked |-> FALSE],
                  meta |-> [severity |-> severity, next_update |-> next_update,
                            stage |-> stage,
                            llm_mode |-> IF configured THEN "openai" ELSE "template",
                            llm_used |-> llm_used, llm_model |-> None]]
  /\ pc' = "responded"
  /\ UNCHANGED <<request, payload, configured, stage, severity, next_update, fidx,
                 redaction_notes, backend_resp, backend_calls, llm_out, llm_used, drafts>>
  /\ UNCHANGED sanvars

Next == Receive \/ SanitizeField \/ NoBackend \/ CallBackend \/ BackendDone \/ Compose \/ Format

Spec == Init /\ [][Next]_vars

\* The handler runs to its return: nothing in it waits except the backend
\* call, which either answers or raises.
FairSpec == Spec /\ WF_vars(Next)

----------------------------------------------------------------------------
(* sanitize_text on its own: the text is drawn from joined lines, from     *)
(* runs of placeholder tokens and from texts holding one e-mail address.   *)

SanLines ==
  { <<"i", "d">>, <<"a", "b", "c", "d", "e", "f", "1">>, <<"E", "r", "r", "o", "r", ":", " ", "b", "o", "o", "m">>, <<"x", " ", "a", "t", " ", "/", "s", "r", "v">>, <<"x", " ", "a", "t", " ", "\\", "/", "s", "r", "v">>, <<"x", " ", "a", "t", " ", "\\", "a">>,
    <<"i", "p", " ", "1", "0", ".", "0", ".", "0", ".", "1", " ", "1", "0", ".", "0", ".", "0", ".", "2">>, <<"h", "o", "s", "t", " ", "d", "b", "1", ".", "c", "o", "r", "p", " ", "i", "d", ":", "a", "b", "c", "1", "2", "3", "x">> }

RECURSIVE LineTexts(_)
LineTexts(n) ==
  IF n = 0 THEN {<<>>}
  ELSE LET shorter == LineTexts(n - 1)
       IN shorter \cup SanLines
            \cup {t \o <<NL>> \o l : t \in shorter \ {<<>>}, l \in SanLines}

Placeholders == {RedactedIp, RedactedEmail, RedactedHost, RedactedId}

RECURSIVE PlaceholderTexts(_)
PlaceholderTexts(n) ==
  IF n = 0 THEN {<<>>}
  ELSE LET shorter == PlaceholderTexts(n - 1)
       IN shorter \cup {t \o sep \o p : t \in shorter, sep \in {<<>>, <<" ">>}, p \in Placeholders}

EmailAddresses == { <<"u", "s", "e", "r", "@", "e", "x", "a", "m", "p", "l", "e", ".", "c", "o", "m">>, <<"a", ".", "b", "+", "c", "@", "d", "-", "e", ".", "c", "o", ".", "u", "k">>, <<"U", "S", "E", "R", "_", "1", "%", "x", "@", "M", "a", "i", "l", ".", "E", "x", "a", "m", "p", "l", "e", ".", "O", "R", "G">> }

EmailTexts ==
  { pre \o e \o post : pre \in {<<>>, <<"c", "o", "n", "t", "a", "c", "t", " ">>, <<"w", "r", "i", "t", "e", " ", "t", "o", ":", " ">>},
                        e \in EmailAddresses, post \in {<<>>, <<" ", "n", "o", "w">>, <<".">>} }

SanInputs == LineTexts(MaxLines) \cup PlaceholderTexts(MaxPlaceholders) \cup EmailTexts

SanInit ==
  /\ san_pc = "start" /\ san_in \in SanInputs /\ san_mid = NoText /\ san_out = NoText
  /\ pc = "off"
  /\ request = EmptyDict /\ payload = EmptyDict
  /\ configured = FALSE
  /\ stage = <<>> /\ severity = <<>> /\ next_update = <<>>
  /\ fidx = 1
  /\ redaction_notes = <<>>
  /\ backend_resp = NoResponse
  /\ backend_calls = 0
  /\ llm_out = EmptyDict /\ llm_used = FALSE
  /\ drafts = EmptyDict /\ exports = EmptyDict /\ response = EmptyDict

\* Lines 33-44
SanRedact ==
  /\ san_pc = "start"
  /\ san_mid' = Redact(san_in)
  /\ san_pc' = "redacted"
  /\ UNCHANGED <<san_in, san_out>>
  /\ UNCHANGED genvars

\* Lines 46-55
SanFilter ==
  /\ san_pc = "redacted"
  /\ san_out' = FilterLines(san_mid)
  /\ san_pc' = "done"
  /\ UNCHANGED <<san_in, san_mid>>
  /\ UNCHANGED genvars

SanNext == SanRedact \/ SanFilter

SanSpec == SanInit /\ [][SanNext]_vars

----------------------------------------------------------------------------
(* Properties. *)

Patterns == {"ip", "email", "hostname", "internal-id"}

\* The order of phases a request may take.
PhaseOrder ==
  { <<"received", "sanitizing">>, <<"sanitizing", "generating">>,
    <<"sanitizing", "composing">>, <<"generating", "composing">>,
    <<"composing", "formatting">>, <<"formatting", "responded">> }

BothSanitized ==
  /\ fidx > Len(fields)
  /\ \A f \in {"summary", "impact"} :
       f \in DOMAIN payload /\ payload[f] = sanitize_text(Get(request, f, <<>>)).text

\* C1: whatever the backend does (not configured, text, empty text, an
\* exception), a request changes phase only along received -> sanitizing ->
\* (generating) -> composing -> formatting -> responded, never ends in an error
\* state, eventually reaches responded, and carries a result envelope there; the
\* generating phase is entered and the backend called only when it is
\* configured, and only after summary and impact have both been sanitized.
C1_PipelineAlwaysResponds ==
  /\ [][pc' # pc => <<pc, pc'>> \in PhaseOrder]_vars
  /\ [](pc # "error")
  /\ [](pc = "generating" => configured /\ BothSanitized)
  /\ [][backend_calls' # backend_calls => pc = "generating" /\ backend_calls' = 1]_vars
  /\ [](pc = "responded" => DOMAIN response = {"drafts", "exports", "guardrails", "meta"})
  /\ <>(pc = "responded")

\* The backend raised and the request was answered all the same.
C1_Witness ==
  /\ pc = "responded"
  /\ backend_resp.kind = "raise"
  /\ DOMAIN response # {}

StandardClosing == <<" ", "W", "e", " ", "w", "i", "l", "l", " ", "p", "r", "o", "v", "i", "d", "e", " ", "f", "u", "r", "t", "h", "e", "r", " ", "d", "e", "t", "a", "i", "l", "s", " ", "a", "s", " ", "t", "h", "e", "y", " ", "a", "r", "e", " ", "v", "e", "r", "i", "f", "i", "e", "d", ".">>

DetailedClosing == <<" ", "R", "e", "s", "o", "l", "u", "t", "i", "o", "n", " ", "s", "t", "e", "p", "s", " ", "a", "r", "e", " ", "u", "n", "d", "e", "r", "w", "a", "y", ";", " ", "w", "e", " ", "w", "i", "l", "l", " ", "s", "h", "a", "r", "e", " ", "a", " ", "f", "u", "l", "l", " ", "s", "u", "m", "m", "a", "r", "y", " ", "p", "o", "s", "t", "-", "r", "e", "s", "o", "l", "u", "t", "i", "o", "n", ".">>

\* The short template, written out.
ShortTemplate ==
  <<"W", "e", " ", "a", "r", "e", " ">> \o Get(payload, "mitigation", <<"i", "n", "v", "e", "s", "t", "i", "g", "a", "t", "i", "n", "g">>)
  \o <<" ", "a", "n", " ", "i", "s", "s", "u", "e", " ", "i", "m", "p", "a", "c", "t", "i", "n", "g", " ">> \o Get(payload, "impact", <<"u", "n", "s", "p", "e", "c", "i", "f", "i", "e", "d", " ", "s", "c", "o", "p", "e">>)
  \o <<".", " ", "S", "e", "v", "e", "r", "i", "t", "y", ":", " ">> \o severity \o <<".", " ", "N", "e", "x", "t", " ", "u", "p", "d", "a", "t", "e", " ", "i", "n", " ">> \o next_update
  \o <<".", " ", "S", "u", "m", "m", "a", "r", "y", ":", " ">> \o strip(Get(payload, "summary", <<>>))

\* The backend was asked and its text is not empty once trimmed.
BackendGaveText ==
  configured /\ backend_resp.kind = "ok" /\ ExtractText(backend_resp) # <<>>

\* C2: drafts.standard is the backend's text exactly when the backend is
\* configured and returned text that is non-empty after trimming; otherwise it is
\* the short draft followed by the standard closing sentence, and llm_used is
\* false.  llm_used is true exactly when drafts.standard is the backend's text.
\* drafts.short and drafts.detailed are the template texts whatever the backend did.
C2_StandardSlotFallback ==
  pc = "responded" =>
    LET d == response.drafts
        text == ExtractText(backend_resp)
    IN /\ (d.standard = text) <=> BackendGaveText
       /\ ~BackendGaveText => (d.standard = d.short \o StandardClosing /\ ~response.meta.llm_used)
       /\ response.meta.llm_used <=> (d.standard = text)
       /\ d.short = ShortTemplate
       /\ d.detailed = ShortTemplate \o DetailedClosing

\* The backend answered with whitespace only, and the template stands in.
C2_Witness ==
  /\ pc = "responded"
  /\ configured
  /\ backend_resp.kind = "ok"
  /\ backend_resp.parts # <<>>
  /\ ExtractText(backend_resp) = <<>>
  /\ response.drafts.standard = ShortTemplate \o StandardClosing

\* C3: the text sanitize_text returns holds no match of any of the four rule
\* patterns; dropping stack-trace lines and rejoining the rest makes no new match.
C3_OutputHasNoRuleMatch ==
  san_pc = "done" => \A p \in Patterns : ~Search(p, san_out.text)

\* The substrings of s the pattern matches.
MatchedTokens(p, s) ==
  {SubSeq(s, i, MatchEnd(p, s, i) - 1) : i \in MatchStarts(p, s, 1)}

\* What the rules find in the free-text fields the templates embed.
SensitiveTokens(req) ==
  UNION {MatchedTokens(p, Get(req, f, <<>>)) : p \in Patterns, f \in {"summary", "impact", "mitigation"}}

\* C4: no templated draft, and no export built from one, holds a substring
\* that a redaction rule matches in the caller's summary, impact or mitigation.
C4_TemplatesHoldNoInputMatch ==
  pc = "responded" =>
    \A tok \in SensitiveTokens(request) :
      /\ ~Contains(response.drafts.short, tok)
      /\ ~Contains(response.drafts.detailed, tok)
      /\ ~response.meta.llm_used =>
           /\ ~Contains(response.drafts.standard, tok)
           /\ ~Contains(response.exports.statuspage, tok)
           /\ ~Contains(response.exports.email, tok)

NextUpdateSupplied == "next_update" \in DOMAIN request /\ request["next_update"] # <<>>

\* The cadence table, the severity compared without regard to case.
CadenceOf(sev) ==
  CASE lower(sev) = <<"s", "e", "v", "1">> -> <<"3", "0", " ", "m", "i", "n", "u", "t", "e", "s">>
    [] lower(sev) = <<"s", "e", "v", "2">> -> <<"6", "0", " ", "m", "i", "n", "u", "t", "e", "s">>
    [] lower(sev) = <<"s", "e", "v", "3">> -> <<"2", " ", "h", "o", "u", "r", "s">>
    [] lower(sev) = <<"s", "e", "v", "4">> -> <<"d", "a", "i", "l", "y", " ", "o", "r", " ", "o", "n", " ", "m", "e", "a", "n", "i", "n", "g", "f", "u", "l", " ", "c", "h", "a", "n", "g", "e">>
    [] OTHER -> <<"6", "0", " ", "m", "i", "n", "u", "t", "e", "s">>

\* The resolved next_update is e in the handler, in meta, in the drafts and in the exports.
NextUpdateIs(e) ==
  /\ pc # "received" => next_update = e
  /\ pc = "responded" =>
       /\ response.meta.next_update = e
       /\ Contains(response.drafts.short, <<".", " ", "N", "e", "x", "t", " ", "u", "p", "d", "a", "t", "e", " ", "i", "n", " ">> \o e \o <<".", " ", "S", "u", "m", "m", "a", "r", "y", ":", " ">>)
       /\ EndsWith(response.exports.email, <<NL, NL>> \o <<"N", "e", "x", "t", " ", "u", "p", "d", "a", "t", "e", ":", " ">> \o e)

\* C5 as stated: the caller's next_update when one is supplied; otherwise the
\* cadence of the severity, and "60 minutes" when the severity is unknown or missing.
C5_AsStated ==
  NextUpdateIs(IF NextUpdateSupplied THEN request["next_update"]
               ELSE IF "severity" \in DOMAIN request THEN CadenceOf(request["severity"])
               ELSE <<"6", "0", " ", "m", "i", "n", "u", "t", "e", "s">>)

\* C5, amended: the caller's next_update when one is supplied (a non-empty
\* one); otherwise the cadence of the severity compared without regard to case,
\* "60 minutes" when the severity is given but unknown, and "2 hours" when the
\* severity is missing, since generate takes a missing severity for "SEV3".
C5_NextUpdateResolved ==
  NextUpdateIs(IF NextUpdateSupplied THEN request["next_update"]
               ELSE IF "severity" \in DOMAIN request THEN CadenceOf(request["severity"])
               ELSE <<"2", " ", "h", "o", "u", "r", "s">>)

\* No severity and no next_update were sent, and the answer promises 2 hours.
C5_Witness ==
  /\ pc = "responded"
  /\ "severity" \notin DOMAIN request
  /\ "next_update" \notin DOMAIN request
  /\ response.meta.next_update = <<"2", " ", "h", "o", "u", "r", "s">>
  /\ response.meta.severity = <<"S", "E", "V", "3">>

\* What the filter is said to drop: " at /" and " at \" as path fragments.
StatedMarkers ==
  { <<"T", "r", "a", "c", "e", "b", "a", "c", "k">>, <<"E", "x", "c", "e", "p", "t", "i", "o", "n">>, <<"E", "r", "r", "o", "r", ":">>, <<"C", "a", "u", "s", "e", "d", " ", "b", "y", ":">>, <<" ", "a", "t", " ", "/">>, <<" ", "a", "t", " ", "\\">> }

StatedKeep(line) == ~(\E kw \in StatedMarkers : Contains(line, kw))

\* C6: the filter drops a line of the redacted text exactly when it contains
\* "Traceback", "Exception", "Error:", "Caused by:", " at /" or " at \"; it adds
\* one removed note for each line dropped and keeps the other lines in order.
C6_DropsExactlyStatedLines ==
  san_pc = "done" =>
    LET lines == splitlines(san_mid.text)
        kept == SelectSeq(lines, StatedKeep)
    IN /\ san_out.text = join(NL, kept)
       /\ san_out.notes = san_mid.notes \o [j \in 1..(Len(lines) - Len(kept)) |-> RemovedNote]

RuleOrder == <<"ip", "email", "hostname", "internal-id">>

\* <<t0, ..., tk>>: the text, and the text after each of the first k rules in turn.
RECURSIVE Progressive(_, _)
Progressive(text, k) ==
  IF k = 0 THEN <<text>>
  ELSE LET before == Progressive(text, k - 1)
       IN Append(before, Sub(RuleOrder[k], rules[k].repl, before[k]))

\* The notes of one field holding text: one redacted note for each rule that
\* matches the text as redacted so far, in rule order, then one removed note for
\* each stack-trace line of the redacted text.
FieldNotes(text) ==
  LET texts == Progressive(text, Len(RuleOrder))
      fired(k) == Search(RuleOrder[k], texts[k])
      hits == SelectSeq([k \in 1..Len(RuleOrder) |-> k], fired)
      lines == splitlines(texts[Len(RuleOrder) + 1])
      dropped == Cardinality({j \in 1..Len(lines) : IsStackTraceLine(lines[j])})
  IN [j \in 1..Len(hits) |-> RedactedNote(RuleOrder[hits[j]])]
       \o [j \in 1..dropped |-> RemovedNote]

\* C7: for each sanitized field there is exactly one redacted note for each rule
\* whose pattern matched the progressively redacted text, however many matches
\* it had, in the order ip, email, hostname, internal-id, before that field's
\* removed notes; guardrails.notes is the notes of summary, then those of impact.
C7_OneNotePerRuleInOrder ==
  pc = "responded" =>
    response.guardrails.notes =
      FieldNotes(Get(request, "summary", <<>>)) \o FieldNotes(Get(request, "impact", <<>>))

\* A summary with two addresses of one kind and a stack-trace line, and an
\* impact with a hostname, an id and a stack-trace line.
C7_Witness ==
  /\ pc = "responded"
  /\ "summary" \in DOMAIN request
  /\ CountFrom("ip", request["summary"], 1) = 2
  /\ response.guardrails.notes =
       << RedactedNote("ip"), RedactedNote("email"), RemovedNote,
          RedactedNote("hostname"), RedactedNote("internal-id"), RemovedNote >>

IsPrefix(p, s) == Len(p) <= Len(s) /\ SubSeq(s, 1, Len(p)) = p

\* C8: the status page is at most 2000 characters and a prefix of title, blank
\* line, draft, blank line, "Next update: ..."; the e-mail is subject, blank
\* line, draft, blank line, "Next update: ..." in full; title and subject are
\* chosen by stage, and the draft exported is drafts.standard.
C8_ExportsCapAndLayout ==
  pc = "responded" =>
    LET st == response.meta.stage
        heads == IF st = <<"i", "n", "i", "t", "i", "a", "l">>
                   THEN <<<<"S", "e", "r", "v", "i", "c", "e", " ", "D", "e", "g", "r", "a", "d", "a", "t", "i", "o", "n", " ", EnDash, " ", "U", "p", "d", "a", "t", "e">>, <<"[", "I", "n", "c", "i", "d", "e", "n", "t", "]", " ", "I", "n", "i", "t", "i", "a", "l", " ", "N", "o", "t", "i", "c", "e">>>>
                 ELSE IF st = <<"r", "e", "s", "o", "l", "u", "t", "i", "o", "n">>
                   THEN <<<<"I", "n", "c", "i", "d", "e", "n", "t", " ", "R", "e", "s", "o", "l", "v", "e", "d", " ", EnDash, " ", "S", "u", "m", "m", "a", "r", "y">>, <<"[", "I", "n", "c", "i", "d", "e", "n", "t", "]", " ", "R", "e", "s", "o", "l", "v", "e", "d">>>>
                 ELSE <<<<"I", "n", "c", "i", "d", "e", "n", "t", " ", "U", "p", "d", "a", "t", "e", " ", EnDash, " ", "P", "r", "o", "g", "r", "e", "s", "s">>, <<"[", "I", "n", "c", "i", "d", "e", "n", "t", "]", " ", "U", "p", "d", "a", "t", "e">>>>
        body == <<NL, NL>> \o response.drafts.standard \o <<NL, NL>>
                  \o <<"N", "e", "x", "t", " ", "u", "p", "d", "a", "t", "e", ":", " ">> \o response.meta.next_update
    IN /\ Len(response.exports.statuspage) <= 2000
       /\ IsPrefix(response.exports.statuspage, heads[1] \o body)
       /\ response.exports.email = heads[2] \o body

\* A draft longer than the cap: the status page is cut, the e-mail is not.
C8_Witness ==
  /\ pc = "responded"
  /\ Len(response.drafts.standard) > 2000
  /\ Len(response.exports.statuspage) = 2000
  /\ Len(response.exports.email) > 2000
  /\ response.meta.stage = <<"r", "e", "s", "o", "l", "u", "t", "i", "o", "n">>

PlaceholderInputs == PlaceholderTexts(MaxPlaceholders)

\* C9: no rule matches a placeholder token; the redactor returns text made only
\* of placeholder tokens unchanged and with no notes; text whose only sensitive
\* token is one e-mail address yields exactly one note, for email.
C9_PlaceholdersNotReflagged ==
  /\ \A ph \in Placeholders, p \in Patterns : ~Search(p, ph)
  /\ san_pc \in {"redacted", "done"} /\ san_in \in PlaceholderInputs =>
       san_mid = [text |-> san_in, notes |-> <<>>]
  /\ san_pc \in {"redacted", "done"} /\ san_in \in EmailTexts =>
       /\ san_mid.notes = << RedactedNote("email") >>
       /\ Contains(san_mid.text, RedactedEmail)
       /\ \A p \in Patterns : ~Search(p, san_mid.text)

\* One address in running text: one note, and the placeholder in its place.
C9_Witness ==
  /\ san_pc = "done"
  /\ san_in = <<"c", "o", "n", "t", "a", "c", "t", " ", "u", "s", "e", "r", "@", "e", "x", "a", "m", "p", "l", "e", ".", "c", "o", "m", " ", "n", "o", "w">>
  /\ san_out = [text |-> <<"c", "o", "n", "t", "a", "c", "t", " ", "[", "r", "e", "d", "a", "c", "t", "e", "d", "-", "e", "m", "a", "i", "l", "]", " ", "n", "o", "w">>, notes |-> << RedactedNote("email") >>]

\* C10: after the request has been handled every field of the payload object
\* passed in has the value it had before the call.
C10_PayloadUntouched ==
  pc = "responded" => payload = request

====
